---------------------------- MODULE Spec2Model ----------------------------
(***************************************************************************)
(* Model of src/pushoverutil/queue.py: the debounced, keyed message        *)
(* coalescing of the module-level Push() and the Sender threads it starts. *)
(*                                                                         *)
(* Threads of the model: the caller threads that invoke Push(), and one    *)
(* thread per Sender object (Sender.run).  Every step that reads or writes *)
(* shared state (CLUSTER_DICT, a Sender's fields, a Sender's lock,         *)
(* Thread.is_alive()) is one action; `with self.lock:` is an acquire step  *)
(* followed by a body-and-release step.  Steps on a thread's own locals    *)
(* (binding arguments, the loop test on a returned value, the sleep) are   *)
(* part of the action before or after them.  Line 75 is taken as the call  *)
(* of the transport imported at line 27.                                   *)
(*                                                                         *)
(* Further parts, each with a specification of its own: a transport call   *)
(* that raises (FailSpec), a Sender made without messages (EmptySpec),     *)
(* PushoverQueue.Push, whose line 175 enters the Push() of line 81         *)
(* (QueuePushSpec), and PushoverQueue's Start, Stop and run (QueueSpec).   *)
(***************************************************************************)
EXTENDS Integers, Sequences, FiniteSets, TLC

(* ------------------------------ bounds -------------------------------- *)

\* The countdown length.  The source leaves the name undefined (line 32 is
\* a comment giving 15); the model runs with a short countdown.
MAX_COUNTER == 2

\* Total number of Push() calls over all caller threads.
MaxPush == 3

\* The same, for the specifications other than Spec.
MaxLivePush == 2

\* Caller threads that may be inside Push() at the same time.
Callers == {"c1", "c2"}
CallerOrder == [c \in Callers |-> IF c = "c1" THEN 1 ELSE 2]

\* Clustering keys and the falsy key (None or "").
Keys == {"A", "B"}
NoKey == ""

\* Message bodies: strings as sequences of characters.
NL == "\n"
Messages == {<<"a">>, <<"b">>}

\* The Sender objects that can be constructed, numbered in order of
\* construction; 0 is None.  Once all exist, a Push() that would construct
\* another stops before line 96: the model holds no more objects.
Senders == {1, 2}
None == 0

\* Source of a transport call made by Push() itself (the unclustered path).
Direct == 0

\* The PushoverQueue object: its user_key (a string) and its api_token, and
\* the threads that call its Start() and Stop().
USER_KEY == <<"u">>
API_TOKEN == "T"
Controllers == {"k1", "k2"}

\* Total number of Start() and Stop() calls.
MaxOps == 4

\* Every key CLUSTER_DICT can come to hold.
DictKeys == Keys \cup {API_TOKEN}

VARIABLES
    CLUSTER_DICT,   \* key -> Sender (or None)                     line 78
    nsenders,       \* number of Sender objects constructed so far
    messages,       \* Sender.messages                              line 48
    counter,        \* Sender.counter                               line 49
    lock,           \* Sender.lock: "free" or "held"                line 50
    pc,             \* position of each Sender thread
    full_message,   \* local of Sender.run                          line 71
    transport,      \* bodies handed to the transport, by source
    cpc,            \* position of each caller thread inside Push()
    cmsg,           \* Push's argument `message`
    ckey,           \* Push's argument `cluster_key`
    csender,        \* Push's local `sender`
    cnew,           \* Push's local `new_sender`
    failed,         \* Senders whose transport call raised
    running,        \* PushoverQueue.running                      line 137
    qlock,          \* PushoverQueue.lock: "free" or its owner    line 138
    qpc,            \* position of the PushoverQueue thread (run)
    kpc,            \* position of each thread calling Start()/Stop()
    \* history variables (not program state)
    skey,           \* key under which a Sender was installed
    npush,          \* number of Push() calls made
    pushed,         \* <<key, message>> of every Push() that has returned
    quiet,          \* DecrementCounter calls completed since the Sender's
                    \* construction or its last completed EnqueueMessage
    snapQuiet,      \* value of quiet when the flush snapshot was taken
    accum,          \* the seeding message and every message enqueued up
                    \* to the flush snapshot, in order of arrival
    qcalls,         \* every PushoverQueue.Push call: what it was given
                    \* and what it handed to Push()
    nops,           \* number of Start() and Stop() calls made
    lastOp          \* the last of Start()/Stop() to set `running`

vars == <<CLUSTER_DICT, nsenders, messages, counter, lock, pc, full_message,
          transport, cpc, cmsg, ckey, csender, cnew,
          skey, npush, pushed, quiet, snapQuiet, accum,
          failed, running, qlock, qpc, kpc, qcalls, nops, lastOp>>

senderVars == <<messages, counter, lock, pc, full_message>>
callerVars == <<cpc, cmsg, ckey, csender, cnew>>
histVars   == <<skey, npush, pushed, quiet, snapQuiet, accum>>
queueVars  == <<running, qlock, qpc, kpc, nops, lastOp>>
pushVars   == <<CLUSTER_DICT, nsenders, senderVars, transport, callerVars,
                histVars>>
\* What the steps of Push() and of a Sender whose send succeeds leave alone.
extVars    == <<failed, qcalls, queueVars>>

(* --------------------------- pure functions --------------------------- *)

RECURSIVE DedupFrom(_, _, _)
DedupFrom(items, i, seen) ==
    IF i > Len(items) THEN <<>>
    ELSE IF items[i] \in seen
         THEN DedupFrom(items, i + 1, seen)
         ELSE <<items[i]>> \o DedupFrom(items, i + 1, seen \cup {items[i]})

\* Deduplicate without `seen.add(item)`: every item is yielded.
Deduplicate_NoSeen(items) == items

\* Deduplicate(items): yields each item not seen before, in order.
Deduplicate(items) == DedupFrom(items, 1, {})

RECURSIVE Join(_, _)
\* sep.join(parts) on strings represented as character sequences.
Join(sep, parts) ==
    IF Len(parts) = 0 THEN <<>>
    ELSE IF Len(parts) = 1 THEN parts[1]
    ELSE parts[1] \o <<sep>> \o Join(sep, Tail(parts))

\* Thread.is_alive(): started and run() not yet returned.
is_alive(s) == pc[s] \notin {"none", "new", "done"}

(* ------------------------------- Init --------------------------------- *)

Init ==
    /\ CLUSTER_DICT = [k \in DictKeys |-> None]
    /\ nsenders = 0
    /\ messages = [s \in Senders |-> <<>>]
    /\ counter = [s \in Senders |-> 0]
    /\ lock = [s \in Senders |-> "free"]
    /\ pc = [s \in Senders |-> "none"]
    /\ full_message = [s \in Senders |-> <<>>]
    /\ transport = [x \in Senders \cup {Direct} |-> <<>>]
    /\ cpc = [c \in Callers |-> "idle"]
    /\ cmsg = [c \in Callers |-> <<>>]
    /\ ckey = [c \in Callers |-> NoKey]
    /\ csender = [c \in Callers |-> None]
    /\ cnew = [c \in Callers |-> None]
    /\ skey = [s \in Senders |-> NoKey]
    /\ npush = 0
    /\ pushed = {}
    /\ quiet = [s \in Senders |-> 0]
    /\ snapQuiet = [s \in Senders |-> -1]
    /\ accum = [s \in Senders |-> <<>>]
    /\ failed = {}
    /\ running = FALSE
    /\ qlock = "free"
    /\ qpc = "none"
    /\ kpc = [k \in Controllers |-> "idle"]
    /\ qcalls = {}
    /\ nops = 0
    /\ lastOp = "none"

(* ----------------------- Push(): caller threads ----------------------- *)

\* Caller threads are interchangeable: a new call is made by the first idle
\* one.
FirstIdle(c) == c = CHOOSE d \in Callers :
                      /\ cpc[d] = "idle"
                      /\ \A e \in Callers : cpc[e] = "idle" => CallerOrder[d] <= CallerOrder[e]

\* What Push() leaves behind when it returns.
Return(c) ==
    /\ cpc' = [cpc EXCEPT ![c] = "idle"]
    /\ cmsg' = [cmsg EXCEPT ![c] = <<>>]
    /\ ckey' = [ckey EXCEPT ![c] = NoKey]
    /\ csender' = [csender EXCEPT ![c] = None]
    /\ cnew' = [cnew EXCEPT ![c] = None]
    /\ pushed' = pushed \cup {<<ckey[c], cmsg[c]>>}

\* Push() looking the registry up without the key: it takes the Sender
\* constructed last, whatever key it was installed under.
PushEnter_AnyKey(c, m, k) ==
    /\ cpc[c] = "idle"
    /\ FirstIdle(c)
    /\ k # NoKey
    /\ npush' = npush + 1
    /\ cpc' = [cpc EXCEPT ![c] = "check"]
    /\ cmsg' = [cmsg EXCEPT ![c] = m]
    /\ ckey' = [ckey EXCEPT ![c] = k]
    /\ csender' = [csender EXCEPT ![c] = nsenders]
    /\ UNCHANGED <<CLUSTER_DICT, nsenders, senderVars, transport,
                   cnew, skey, pushed, quiet, snapQuiet, accum>>
    /\ UNCHANGED extVars

\* Push(message, cluster_key) with a truthy key: line 88 takes the branch,
\* and line 90 reads the registry: sender = CLUSTER_DICT.get(cluster_key).
PushEnter(c, m, k) ==
    /\ cpc[c] = "idle"
    /\ FirstIdle(c)
    /\ k # NoKey
    /\ npush' = npush + 1
    /\ cpc' = [cpc EXCEPT ![c] = "check"]
    /\ cmsg' = [cmsg EXCEPT ![c] = m]
    /\ ckey' = [ckey EXCEPT ![c] = k]
    /\ csender' = [csender EXCEPT ![c] = CLUSTER_DICT[k]]
    /\ UNCHANGED <<CLUSTER_DICT, nsenders, senderVars, transport,
                   cnew, skey, pushed, quiet, snapQuiet, accum>>
    /\ UNCHANGED extVars

\* Push(message) with a falsy key: line 88 is false, and the code after
\* line 104 is commented out, so the call returns having done nothing.
PushNoKey(c, m) ==
    /\ cpc[c] = "idle"
    /\ FirstIdle(c)
    /\ npush' = npush + 1
    /\ pushed' = pushed \cup {<<NoKey, m>>}
    /\ UNCHANGED <<CLUSTER_DICT, nsenders, senderVars, transport, callerVars,
                   skey, quiet, snapQuiet, accum>>
    /\ UNCHANGED extVars

\* line 94: if sender is None or not sender.is_alive()
PushCheck(c) ==
    /\ cpc[c] = "check"
    /\ cpc' = [cpc EXCEPT ![c] =
                 IF csender[c] = None \/ ~is_alive(csender[c])
                 THEN "create" ELSE "enq"]
    /\ UNCHANGED <<CLUSTER_DICT, nsenders, senderVars, transport, cmsg, ckey,
                   csender, cnew, histVars>>
    /\ UNCHANGED extVars

\* lines 95-97: construct a Sender seeded with the message (lines 44-50) and
\* install it in CLUSTER_DICT.
PushCreate(c) ==
    /\ cpc[c] = "create"
    /\ nsenders < Cardinality(Senders)
    /\ LET s == nsenders + 1 IN
        /\ nsenders' = s
        /\ messages' = [messages EXCEPT ![s] = <<cmsg[c]>>]
        /\ counter' = [counter EXCEPT ![s] = MAX_COUNTER]
        /\ lock' = [lock EXCEPT ![s] = "free"]
        /\ pc' = [pc EXCEPT ![s] = "new"]
        /\ CLUSTER_DICT' = [CLUSTER_DICT EXCEPT ![ckey[c]] = s]
        /\ cnew' = [cnew EXCEPT ![c] = s]
        /\ skey' = [skey EXCEPT ![s] = ckey[c]]
        /\ quiet' = [quiet EXCEPT ![s] = 0]
        /\ accum' = [accum EXCEPT ![s] = <<cmsg[c]>>]
    /\ cpc' = [cpc EXCEPT ![c] = "start"]
    /\ UNCHANGED <<full_message, transport, cmsg, ckey, csender,
                   npush, pushed, snapQuiet>>
    /\ UNCHANGED extVars

\* line 98: new_sender.start(); Push returns.
PushStart(c) ==
    /\ cpc[c] = "start"
    /\ pc' = [pc EXCEPT ![cnew[c]] = "dec"]
    /\ Return(c)
    /\ UNCHANGED <<CLUSTER_DICT, nsenders, messages, counter, lock,
                   full_message, transport, skey, npush, quiet,
                   snapQuiet, accum>>
    /\ UNCHANGED extVars

\* line 102 -> line 53: sender.EnqueueMessage(message) takes the lock.
EnqueueAcquire(c) ==
    /\ cpc[c] = "enq"
    /\ lock[csender[c]] = "free"
    /\ lock' = [lock EXCEPT ![csender[c]] = "held"]
    /\ cpc' = [cpc EXCEPT ![c] = "enq_cs"]
    /\ UNCHANGED <<CLUSTER_DICT, nsenders, messages, counter, pc,
                   full_message, transport, cmsg, ckey, csender, cnew,
                   histVars>>
    /\ UNCHANGED extVars

\* EnqueueMessage that skips a message already in the list altogether,
\* the re-arming included.
EnqueueMessage_NoRearm(c) ==
    /\ cpc[c] = "enq_cs"
    /\ LET s == csender[c]
           dup == cmsg[c] \in {messages[s][i] : i \in DOMAIN messages[s]}
       IN
        /\ messages' = [messages EXCEPT ![s] =
                          IF dup THEN @ ELSE Append(@, cmsg[c])]
        /\ counter' = [counter EXCEPT ![s] = IF dup THEN @ ELSE MAX_COUNTER]
        /\ lock' = [lock EXCEPT ![s] = "free"]
        /\ quiet' = [quiet EXCEPT ![s] = IF dup THEN @ ELSE 0]
        /\ accum' = [accum EXCEPT ![s] =
                      IF pc[s] \in {"send", "done"} \/ dup THEN @
                      ELSE Append(@, cmsg[c])]
    /\ Return(c)
    /\ UNCHANGED <<CLUSTER_DICT, nsenders, pc, full_message, transport,
                   skey, npush, snapQuiet>>
    /\ UNCHANGED extVars

\* lines 54-55: append, re-arm the counter, release the lock; Push returns.
EnqueueMessage(c) ==
    /\ cpc[c] = "enq_cs"
    /\ LET s == csender[c] IN
        /\ messages' = [messages EXCEPT ![s] = Append(@, cmsg[c])]
        /\ counter' = [counter EXCEPT ![s] = MAX_COUNTER]
        /\ lock' = [lock EXCEPT ![s] = "free"]
        /\ quiet' = [quiet EXCEPT ![s] = 0]
        /\ accum' = [accum EXCEPT ![s] =
                      IF pc[s] \in {"send", "done"} THEN @
                      ELSE Append(@, cmsg[c])]
    /\ Return(c)
    /\ UNCHANGED <<CLUSTER_DICT, nsenders, pc, full_message, transport,
                   skey, npush, snapQuiet>>
    /\ UNCHANGED extVars

(* --------------------- Sender.run(): sender threads ------------------- *)

\* line 66 -> line 58: DecrementCounter takes the lock.
DecrementAcquire(s) ==
    /\ pc[s] = "dec"
    /\ lock[s] = "free"
    /\ lock' = [lock EXCEPT ![s] = "held"]
    /\ pc' = [pc EXCEPT ![s] = "dec_cs"]
    /\ UNCHANGED <<CLUSTER_DICT, nsenders, messages, counter, full_message,
                   transport, callerVars, histVars>>
    /\ UNCHANGED extVars

\* The loop test written `>= 0`.
AfterDecrement_GE(v) == IF v >= 0 THEN "dec" ELSE "snap"

\* Where run() goes with the value DecrementCounter returned (line 66):
\* round the loop again (after the sleep of line 67, which touches nothing)
\* or on to the flush.
AfterDecrement(v) == IF v > 0 THEN "dec" ELSE "snap"

\* DecrementCounter without `self.counter -= 1`.
DecrementCounter_NoDec(s) ==
    /\ pc[s] = "dec_cs"
    /\ lock' = [lock EXCEPT ![s] = "free"]
    /\ pc' = [pc EXCEPT ![s] = AfterDecrement(counter[s])]
    /\ UNCHANGED <<CLUSTER_DICT, nsenders, messages, counter, full_message,
                   transport, callerVars, histVars>>
    /\ UNCHANGED extVars

\* lines 59-60, the loop test of line 66 and the sleep of line 67.
DecrementCounter(s) ==
    /\ pc[s] = "dec_cs"
    /\ counter' = [counter EXCEPT ![s] = @ - 1]
    /\ lock' = [lock EXCEPT ![s] = "free"]
    /\ pc' = [pc EXCEPT ![s] = AfterDecrement(counter[s] - 1)]
    /\ quiet' = [quiet EXCEPT ![s] = @ + 1]
    /\ UNCHANGED <<CLUSTER_DICT, nsenders, messages, full_message, transport,
                   callerVars, skey, npush, pushed, snapQuiet, accum>>
    /\ UNCHANGED extVars

\* line 70: the flush takes the lock.
FlushAcquire(s) ==
    /\ pc[s] = "snap"
    /\ lock[s] = "free"
    /\ lock' = [lock EXCEPT ![s] = "held"]
    /\ pc' = [pc EXCEPT ![s] = "snap_cs"]
    /\ UNCHANGED <<CLUSTER_DICT, nsenders, messages, counter, full_message,
                   transport, callerVars, histVars>>
    /\ UNCHANGED extVars

\* The flush with the send inside the `with self.lock:` block: the lock is
\* still held when run() reaches the transport call.
FlushSnapshot_HoldLock(s) ==
    /\ pc[s] = "snap_cs"
    /\ full_message' = [full_message EXCEPT ![s] =
                          Join(NL, Deduplicate(messages[s]))]
    /\ messages' = [messages EXCEPT ![s] = <<>>]
    /\ pc' = [pc EXCEPT ![s] = "send"]
    /\ snapQuiet' = [snapQuiet EXCEPT ![s] = quiet[s]]
    /\ UNCHANGED <<CLUSTER_DICT, nsenders, counter, lock, transport,
                   callerVars, skey, npush, pushed, quiet, accum>>
    /\ UNCHANGED extVars

\* lines 71-72: join the deduplicated messages, clear the list, release.
FlushSnapshot(s) ==
    /\ pc[s] = "snap_cs"
    /\ full_message' = [full_message EXCEPT ![s] =
                          Join(NL, Deduplicate(messages[s]))]
    /\ messages' = [messages EXCEPT ![s] = <<>>]
    /\ lock' = [lock EXCEPT ![s] = "free"]
    /\ pc' = [pc EXCEPT ![s] = "send"]
    /\ snapQuiet' = [snapQuiet EXCEPT ![s] = quiet[s]]
    /\ UNCHANGED <<CLUSTER_DICT, nsenders, counter, transport, callerVars,
                   skey, npush, pushed, quiet, accum>>
    /\ UNCHANGED extVars

\* run() going back to the countdown after the send when the counter was
\* re-armed meanwhile.
Send_Rearm(s) ==
    /\ pc[s] = "send"
    /\ transport' = [transport EXCEPT ![s] = Append(@, full_message[s])]
    /\ pc' = [pc EXCEPT ![s] = IF counter[s] > 0 THEN "dec" ELSE "done"]
    /\ full_message' = [full_message EXCEPT ![s] = <<>>]
    /\ UNCHANGED <<CLUSTER_DICT, nsenders, messages, counter, lock,
                   callerVars, histVars>>
    /\ UNCHANGED extVars

\* line 75: the full message goes out via the transport; run() returns.
Send(s) ==
    /\ pc[s] = "send"
    /\ transport' = [transport EXCEPT ![s] = Append(@, full_message[s])]
    /\ pc' = [pc EXCEPT ![s] = "done"]
    /\ full_message' = [full_message EXCEPT ![s] = <<>>]
    /\ UNCHANGED <<CLUSTER_DICT, nsenders, messages, counter, lock,
                   callerVars, histVars>>
    /\ UNCHANGED extVars

(* --------------------------- specification ---------------------------- *)

CallerStep(c) ==
    \/ PushCheck(c)
    \/ PushCreate(c)
    \/ PushStart(c)
    \/ EnqueueAcquire(c)
    \/ EnqueueMessage(c)

SenderStep(s) ==
    \/ DecrementAcquire(s)
    \/ DecrementCounter(s)
    \/ FlushAcquire(s)
    \/ FlushSnapshot(s)
    \/ Send(s)

\* The steps of the threads already running.
ThreadStep ==
    \/ \E c \in Callers : PushCheck(c)
    \/ \E c \in Callers : PushCreate(c)
    \/ \E c \in Callers : PushStart(c)
    \/ \E c \in Callers : EnqueueAcquire(c)
    \/ \E c \in Callers : EnqueueMessage(c)
    \/ \E s \in Senders : DecrementAcquire(s)
    \/ \E s \in Senders : DecrementCounter(s)
    \/ \E s \in Senders : FlushAcquire(s)
    \/ \E s \in Senders : FlushSnapshot(s)
    \/ \E s \in Senders : Send(s)

Next ==
    \/ \E c \in Callers, m \in Messages, k \in Keys :
          npush < MaxPush /\ PushEnter(c, m, k)
    \/ \E c \in Callers, m \in Messages :
          npush < MaxPush /\ PushNoKey(c, m)
    \/ ThreadStep

Spec == Init /\ [][Next]_vars

\* The same threads under fair scheduling: a thread that can take a step
\* eventually takes one (callers already inside Push(), and Sender threads).
\* No fairness is put on new Push() calls arriving.
LiveNext ==
    \/ \E c \in Callers, m \in Messages, k \in Keys :
          npush < MaxLivePush /\ PushEnter(c, m, k)
    \/ \E c \in Callers, m \in Messages :
          npush < MaxLivePush /\ PushNoKey(c, m)
    \/ ThreadStep

LiveSpec ==
    /\ Init
    /\ [][LiveNext]_vars
    /\ \A c \in Callers : WF_vars(CallerStep(c))
    /\ \A s \in Senders : WF_vars(SenderStep(s))

(* ------------------- the transport call that raises ------------------- *)

\* A failed send after which run() puts the body back and counts down
\* again.
SendFail_Requeue(s) ==
    /\ pc[s] = "send"
    /\ transport' = [transport EXCEPT ![s] = Append(@, full_message[s])]
    /\ failed' = failed \cup {s}
    /\ messages' = [messages EXCEPT ![s] = <<full_message[s]>> \o @]
    /\ counter' = [counter EXCEPT ![s] = MAX_COUNTER]
    /\ pc' = [pc EXCEPT ![s] = "dec"]
    /\ full_message' = [full_message EXCEPT ![s] = <<>>]
    /\ UNCHANGED <<CLUSTER_DICT, nsenders, lock, callerVars, histVars,
                   qcalls, queueVars>>

\* A failure that takes every other Sender thread down with it.
SendFail_StopsAll(s) ==
    /\ pc[s] = "send"
    /\ transport' = [transport EXCEPT ![s] = Append(@, full_message[s])]
    /\ failed' = failed \cup {s}
    /\ pc' = [x \in Senders |-> IF x = s \/ is_alive(x) THEN "done" ELSE pc[x]]
    /\ full_message' = [full_message EXCEPT ![s] = <<>>]
    /\ UNCHANGED <<CLUSTER_DICT, nsenders, messages, counter, lock,
                   callerVars, histVars, qcalls, queueVars>>

\* line 75 raising (a network or API failure): the exception ends run(),
\* so the thread is over; the body was handed to the transport once.
SendFail(s) ==
    /\ pc[s] = "send"
    /\ transport' = [transport EXCEPT ![s] = Append(@, full_message[s])]
    /\ failed' = failed \cup {s}
    /\ pc' = [pc EXCEPT ![s] = "done"]
    /\ full_message' = [full_message EXCEPT ![s] = <<>>]
    /\ UNCHANGED <<CLUSTER_DICT, nsenders, messages, counter, lock,
                   callerVars, histVars, qcalls, queueVars>>

FailNext ==
    \/ \E c \in Callers, m \in Messages, k \in Keys :
          npush < MaxLivePush /\ PushEnter(c, m, k)
    \/ \E c \in Callers, m \in Messages :
          npush < MaxLivePush /\ PushNoKey(c, m)
    \/ ThreadStep
    \/ \E s \in Senders : SendFail(s)

\* Sends may succeed or fail; every running thread is scheduled fairly.
FailSpec ==
    /\ Init
    /\ [][FailNext]_vars
    /\ \A c \in Callers : WF_vars(CallerStep(c))
    /\ \A s \in Senders : WF_vars(SenderStep(s) \/ SendFail(s))

(* ----------------- a Sender made without initial messages ------------- *)

\* Sender() followed by start(), made outside Push(): line 48 gives it the
\* empty list, and CLUSTER_DICT does not hold it.
StartEmptySender ==
    /\ nsenders < Cardinality(Senders)
    /\ LET s == nsenders + 1 IN
        /\ nsenders' = s
        /\ messages' = [messages EXCEPT ![s] = <<>>]
        /\ counter' = [counter EXCEPT ![s] = MAX_COUNTER]
        /\ lock' = [lock EXCEPT ![s] = "free"]
        /\ pc' = [pc EXCEPT ![s] = "dec"]
        /\ skey' = [skey EXCEPT ![s] = NoKey]
        /\ quiet' = [quiet EXCEPT ![s] = 0]
        /\ accum' = [accum EXCEPT ![s] = <<>>]
    /\ UNCHANGED <<CLUSTER_DICT, full_message, transport, callerVars,
                   npush, pushed, snapQuiet, extVars>>

EmptyNext ==
    \/ \E c \in Callers, m \in Messages, k \in Keys :
          npush < MaxLivePush /\ PushEnter(c, m, k)
    \/ \E c \in Callers, m \in Messages :
          npush < MaxLivePush /\ PushNoKey(c, m)
    \/ ThreadStep
    \/ StartEmptySender

EmptySpec == Init /\ [][EmptyNext]_vars

(* -------------------------- PushoverQueue.Push ------------------------ *)

\* PushoverQueue.Push(message=m, clustering_key=k), line 175:
\* Push(self.user_key, self.api_token, message).  The name Push is the
\* function of line 81, so its `message` is the user key, its `cluster_key`
\* the API token and its `high_priority` the caller's message; the key is
\* truthy, and line 90 looks the registry up under it.
QueuePush(c, m, k) ==
    /\ cpc[c] = "idle"
    /\ FirstIdle(c)
    /\ npush' = npush + 1
    /\ cpc' = [cpc EXCEPT ![c] = "check"]
    /\ cmsg' = [cmsg EXCEPT ![c] = USER_KEY]
    /\ ckey' = [ckey EXCEPT ![c] = API_TOKEN]
    /\ csender' = [csender EXCEPT ![c] = CLUSTER_DICT[API_TOKEN]]
    /\ qcalls' = qcalls \cup {[message |-> m, clustering_key |-> k,
                               body |-> USER_KEY, cluster |-> API_TOKEN]}
    /\ UNCHANGED <<CLUSTER_DICT, nsenders, senderVars, transport,
                   cnew, skey, pushed, quiet, snapQuiet, accum,
                   failed, queueVars>>

QueuePushNext ==
    \/ \E c \in Callers, m \in Messages, k \in Keys \cup {NoKey} :
          npush < MaxLivePush /\ QueuePush(c, m, k)
    \/ \E c \in Callers, m \in Messages, k \in Keys :
          npush < MaxLivePush /\ PushEnter(c, m, k)
    \/ ThreadStep

QueuePushSpec == Init /\ [][QueuePushNext]_vars

(* ------------------- PushoverQueue: Start, Stop, run ------------------ *)

\* What the queue's own actions leave alone.
notQueueVars == <<pushVars, failed, qcalls>>

\* A thread calls Start() and reaches line 142.
StartCall(k) ==
    /\ kpc[k] = "idle"
    /\ nops' = nops + 1
    /\ kpc' = [kpc EXCEPT ![k] = "start"]
    /\ UNCHANGED <<running, qlock, qpc, lastOp, notQueueVars>>

\* line 142: `with self.lock:` is entered.
StartAcquire(k) ==
    /\ kpc[k] = "start"
    /\ qlock = "free"
    /\ qlock' = k
    /\ kpc' = [kpc EXCEPT ![k] = "start_cs"]
    /\ UNCHANGED <<running, qpc, nops, lastOp, notQueueVars>>

\* lines 143-144 and the release: running = True, then self.start(), which
\* starts run() the first time and raises RuntimeError on a thread already
\* started; either way the `with` block releases the lock.
StartBody(k) ==
    /\ kpc[k] = "start_cs"
    /\ running' = TRUE
    /\ lastOp' = "Start"
    /\ qpc' = IF qpc = "none" THEN "poll" ELSE qpc
    /\ qlock' = "free"
    /\ kpc' = [kpc EXCEPT ![k] = "idle"]
    /\ UNCHANGED <<nops, notQueueVars>>

\* A thread calls Stop() and reaches line 147.
StopCall(k) ==
    /\ kpc[k] = "idle"
    /\ nops' = nops + 1
    /\ kpc' = [kpc EXCEPT ![k] = "stop"]
    /\ UNCHANGED <<running, qlock, qpc, lastOp, notQueueVars>>

\* line 147: `with self.lock:` is entered.
StopAcquire(k) ==
    /\ kpc[k] = "stop"
    /\ qlock = "free"
    /\ qlock' = k
    /\ kpc' = [kpc EXCEPT ![k] = "stop_cs"]
    /\ UNCHANGED <<running, qpc, nops, lastOp, notQueueVars>>

\* A Stop() that releases the lock and leaves `running` as it was.
StopBody_NoClear(k) ==
    /\ kpc[k] = "stop_cs"
    /\ lastOp' = "Stop"
    /\ qlock' = "free"
    /\ kpc' = [kpc EXCEPT ![k] = "idle"]
    /\ UNCHANGED <<running, qpc, nops, notQueueVars>>

\* line 148 and the release: running = False.
StopBody(k) ==
    /\ kpc[k] = "stop_cs"
    /\ running' = FALSE
    /\ lastOp' = "Stop"
    /\ qlock' = "free"
    /\ kpc' = [kpc EXCEPT ![k] = "idle"]
    /\ UNCHANGED <<qpc, nops, notQueueVars>>

\* line 155 calling IsRunning, line 151: the run thread enters
\* `with self.lock:`.
PollAcquire ==
    /\ qpc = "poll"
    /\ qlock = "free"
    /\ qlock' = "run"
    /\ qpc' = "poll_cs"
    /\ UNCHANGED <<running, kpc, nops, lastOp, notQueueVars>>

\* line 152 and the release, then the loop test of line 155: run() goes
\* round again on True and returns on False.
PollBody ==
    /\ qpc = "poll_cs"
    /\ qlock' = "free"
    /\ qpc' = IF running THEN "poll" ELSE "done"
    /\ UNCHANGED <<running, kpc, nops, lastOp, notQueueVars>>

ControllerStep(k) ==
    \/ StartAcquire(k) \/ StartBody(k)
    \/ StopAcquire(k) \/ StopBody(k)

QueueNext ==
    \/ \E k \in Controllers : nops < MaxOps /\ StartCall(k)
    \/ \E k \in Controllers : nops < MaxOps /\ StopCall(k)
    \/ \E k \in Controllers : ControllerStep(k)
    \/ PollAcquire
    \/ PollBody

\* Fair scheduling of the queue's threads: a thread that can run does, and
\* a thread waiting for the lock gets it if it is free again and again.
QueueSpec ==
    /\ Init
    /\ [][QueueNext]_vars
    /\ \A k \in Controllers :
          /\ WF_vars(StartBody(k)) /\ WF_vars(StopBody(k))
          /\ SF_vars(StartAcquire(k)) /\ SF_vars(StopAcquire(k))
    /\ SF_vars(PollAcquire)
    /\ WF_vars(PollBody)

(* ------------------------ vocabulary of the claims -------------------- *)

Range(q) == {q[i] : i \in DOMAIN q}

\* The lines of a body: the pieces between newline characters.
RECURSIVE SplitFrom(_, _, _)
SplitFrom(body, i, cur) ==
    IF i > Len(body) THEN <<cur>>
    ELSE IF body[i] = NL
         THEN <<cur>> \o SplitFrom(body, i + 1, <<>>)
         ELSE SplitFrom(body, i + 1, Append(cur, body[i]))

SplitLines(body) == SplitFrom(body, 1, <<>>)

\* The distinct elements of q, each once, in order of first occurrence.
FirstOccurrences(q) ==
    LET idx == {i \in DOMAIN q : \A j \in 1..(i - 1) : q[j] # q[i]}
        n == Cardinality(idx)
        at == [r \in 1..n |->
                 CHOOSE i \in idx : Cardinality({j \in idx : j < i}) = r - 1]
    IN [r \in 1..n |-> q[at[r]]]

Constructed == {s \in Senders : pc[s] # "none"}

\* The timer states of the specification, read off the Sender thread.
TState(s) ==
    CASE pc[s] = "none" -> "Unborn"
      [] pc[s] \in {"new", "dec", "dec_cs"} -> "Active"
      [] pc[s] \in {"snap", "snap_cs", "send"} -> "Flushing"
      [] pc[s] = "done" -> "Done"

\* Every line of every body the transport got from Sender s.
SentLines(s) == UNION {Range(SplitLines(transport[s][i])) : i \in DOMAIN transport[s]}

(* -------------------------------- C1 ---------------------------------- *)

\* C1: every message of a returned Push(message, key) with a non-empty key
\* is in a body the transport got from a Sender of that key, or is in the
\* flush snapshot of such a Sender, or is held by such a Sender that has not
\* yet taken its snapshot.
C1_NoMessageLost ==
    \A p \in pushed :
        p[1] # NoKey =>
            \E s \in Constructed :
                /\ skey[s] = p[1]
                /\ \/ TState(s) = "Active" /\ p[2] \in Range(messages[s])
                   \/ pc[s] \in {"snap", "snap_cs"} /\ p[2] \in Range(messages[s])
                   \/ pc[s] = "send" /\ p[2] \in Range(SplitLines(full_message[s]))
                   \/ p[2] \in SentLines(s)

(* -------------------------------- C2 ---------------------------------- *)

\* C2: the body a Sender sends is the newline-joined list of the distinct
\* bodies it accumulated (seed, then each enqueue up to the snapshot), each
\* once, in order of first occurrence.
C2_DedupInOrder ==
    \A s \in Senders :
        /\ pc[s] = "send" =>
              full_message[s] = Join(NL, FirstOccurrences(accum[s]))
        /\ pc[s] = "done" =>
              /\ transport[s] = <<Join(NL, FirstOccurrences(accum[s]))>>
              /\ SplitLines(transport[s][1]) = FirstOccurrences(accum[s])

\* A Sender that accumulated A, B, A has sent the two-line body A, B.
C2_Witness ==
    \E s \in Senders :
        /\ pc[s] = "done"
        /\ Len(accum[s]) = 3
        /\ accum[s][1] = accum[s][3]
        /\ accum[s][1] # accum[s][2]
        /\ transport[s] = <<accum[s][1] \o <<NL>> \o accum[s][2]>>

(* -------------------------------- C3 ---------------------------------- *)

\* C3: a Sender never takes its flush snapshot while fewer than MAX_COUNTER
\* decrements have happened since its most recently completed enqueue.
C3_DebounceReset ==
    \A s \in Senders :
        pc[s] \in {"send", "done"} => snapQuiet[s] >= MAX_COUNTER

(* -------------------------------- C4 ---------------------------------- *)

\* C4: a returned Push with no clustering key has handed its message to the
\* transport itself, exactly once.
C4_UnclusteredPassthrough ==
    \A p \in pushed :
        p[1] = NoKey =>
            Cardinality({i \in DOMAIN transport[Direct] :
                            transport[Direct][i] = p[2]}) = 1

(* -------------------------------- C5 ---------------------------------- *)

\* C5: under fair scheduling, a started Sender eventually finishes, having
\* handed the transport exactly one body, which holds what it accumulated.
C5_EventuallyFlushes ==
    \A s \in Senders :
        is_alive(s) ~>
            /\ pc[s] = "done"
            /\ Len(transport[s]) = 1
            /\ Range(accum[s]) = Range(SplitLines(transport[s][1]))

\* A Sender that accumulated two different messages has sent one body.
C5_Witness ==
    \E s \in Senders :
        /\ pc[s] = "done"
        /\ Len(transport[s]) = 1
        /\ Cardinality(Range(accum[s])) = 2

(* -------------------------------- C6 ---------------------------------- *)

\* C6: for each key at most one Sender is alive and not yet flushed, and it
\* is the one CLUSTER_DICT holds for the key.
C6_OneLiveTimerPerKey ==
    \A k \in Keys :
        LET live == {s \in Senders :
                        skey[s] = k /\ pc[s] \in {"dec", "dec_cs", "snap", "snap_cs"}}
        IN /\ Cardinality(live) <= 1
           /\ \A s \in live : CLUSTER_DICT[k] = s

(* -------------------------------- C7 ---------------------------------- *)

\* Everything the program holds for key k: its registry entry and the
\* Senders installed under it.
KeyView(k) ==
    <<CLUSTER_DICT[k],
      [s \in {x \in Constructed : skey[x] = k} |->
          <<messages[s], counter[s], lock[s], pc[s], full_message[s],
            transport[s]>>]>>

\* A step taken for key k: of a Push for k, or of a Sender installed under k.
StepFor(k) ==
    \/ \E c \in Callers, m \in Messages : PushEnter(c, m, k)
    \/ \E c \in Callers : ckey[c] = k /\ CallerStep(c)
    \/ \E s \in Senders : skey[s] = k /\ SenderStep(s)

\* C7: a step taken for key a leaves unchanged everything held for any other
\* key b, and a body sent by a Sender of key a holds only messages pushed
\* under a.
C7_Isolation ==
    /\ [][\A a \in Keys : StepFor(a) =>
             \A b \in Keys \ {a} : KeyView(b)' = KeyView(b)]_vars
    /\ [](\A s \in Constructed :
             \A l \in SentLines(s) : <<skey[s], l>> \in pushed)

\* Sender 1 has flushed while Sender 2, of another key, still holds a
\* different message that was never pushed under Sender 1's key.
C7_Witness ==
    /\ pc[1] = "done"
    /\ pc[2] \in {"dec", "dec_cs"}
    /\ skey[1] # skey[2]
    /\ messages[2] # <<>>
    /\ \A l \in Range(messages[2]) : <<skey[1], l>> \notin pushed

(* -------------------------------- C8 ---------------------------------- *)

TimerTransitions ==
    {<<"Unborn", "Unborn">>, <<"Unborn", "Active">>, <<"Active", "Active">>,
     <<"Active", "Flushing">>, <<"Flushing", "Flushing">>,
     <<"Flushing", "Done">>, <<"Done", "Done">>}

\* C8: a Sender only moves Active -> Flushing -> Done, an enqueue leaves its
\* state alone, and the transport gets exactly one body from a Sender that is
\* Done and none from one that is not.
C8_Lifecycle ==
    /\ [][\A s \in Senders : <<TState(s), TState(s)'>> \in TimerTransitions]_vars
    /\ [][\A c \in Callers, s \in Senders :
             (s = csender[c] /\ EnqueueMessage(c)) => TState(s)' = TState(s)]_vars
    /\ [](\A s \in Senders :
             Len(transport[s]) = IF pc[s] = "done" THEN 1 ELSE 0)

\* A Done Sender that was enqueued into after its flush: it stays Done with
\* the one body it sent.
C8_Witness ==
    \E s \in Senders :
        /\ pc[s] = "done"
        /\ messages[s] # <<>>
        /\ Len(transport[s]) = 1

(* -------------------------------- C9 ---------------------------------- *)

\* C9: EnqueueMessage never runs on a Sender whose thread has finished.
C9_NoEnqueueOnDone ==
    \A c \in Callers :
        cpc[c] = "enq_cs" => pc[csender[c]] # "done"

(* -------------------------------- C10 --------------------------------- *)

\* C10: a finished Sender made exactly one transport call, and took its
\* snapshot exactly MAX_COUNTER decrements after its last enqueue (or its
\* construction).
C10_ExactTiming ==
    \A s \in Senders :
        pc[s] = "done" =>
            /\ Len(transport[s]) = 1
            /\ snapQuiet[s] = MAX_COUNTER

(* -------------------------------- C11 --------------------------------- *)

\* C11: once a Sender has taken its flush snapshot, its messages list stays
\* empty, also while the transport call is in flight and after it.
C11_NoMutationAfterSnapshot ==
    \A s \in Senders :
        pc[s] \in {"send", "done"} => messages[s] = <<>>

(* -------------------------------- C12 --------------------------------- *)

\* C12: an EnqueueMessage on a Sender that is not Active changes neither its
\* messages nor its counter.
C12_RejectWhenNotActive ==
    [][\A c \in Callers, s \in Senders :
          (s = csender[c] /\ TState(s) # "Active" /\ EnqueueMessage(c)) =>
              /\ messages'[s] = messages[s]
              /\ counter'[s] = counter[s]]_vars

(* -------------------------------- C13 --------------------------------- *)

\* C13: while a Sender's transport call is in flight its lock is free or
\* held by a caller inside EnqueueMessage, never by the flush.
C13_SendOutsideLock ==
    \A s \in Senders :
        (pc[s] = "send" /\ lock[s] = "held") =>
            \E c \in Callers : cpc[c] = "enq_cs" /\ csender[c] = s

\* A caller is inside EnqueueMessage, holding the lock, while the Sender's
\* transport call is in flight.
C13_Witness ==
    \E s \in Senders, c \in Callers :
        /\ pc[s] = "send"
        /\ cpc[c] = "enq_cs"
        /\ csender[c] = s
        /\ lock[s] = "held"

(* -------------------------------- C17 --------------------------------- *)

NoRepeat(q) == Cardinality(Range(q)) = Len(q)

\* C17 as stated: an Active Sender's messages list holds no body twice.
C17_NoDuplicateHeld ==
    \A s \in Constructed :
        TState(s) = "Active" => NoRepeat(messages[s])

\* C17 as amended: EnqueueMessage always appends, also a body already in
\* the list, and always re-arms the counter; the body sent holds no line
\* twice.
C17_AppendAndRearm ==
    /\ [][\A c \in Callers, s \in Senders :
             (s = csender[c] /\ EnqueueMessage(c)) =>
                 /\ messages'[s] = Append(messages[s], cmsg[c])
                 /\ counter'[s] = MAX_COUNTER]_vars
    /\ [](\A s \in Senders :
             \A i \in DOMAIN transport[s] : NoRepeat(SplitLines(transport[s][i])))

\* An Active Sender re-armed by the enqueue of the body it already held:
\* it holds the body twice.
C17_Witness ==
    \E s \in Senders :
        /\ TState(s) = "Active"
        /\ Len(messages[s]) = 2
        /\ messages[s][1] = messages[s][2]
        /\ counter[s] = MAX_COUNTER
        /\ pc[s] = "dec"

(* -------------------------------- C19 --------------------------------- *)

\* C19: a Sender's counter stays within 0..MAX_COUNTER, and a Sender that
\* is about to decrement has a counter above 0.
C19_CounterRange ==
    \A s \in Senders :
        /\ 0 <= counter[s]
        /\ counter[s] <= MAX_COUNTER
        /\ pc[s] \in {"dec", "dec_cs"} => counter[s] > 0

\* A Sender has counted down to 0 and left the loop while a caller is about
\* to enqueue into it.
C19_Witness ==
    \E s \in Senders, c \in Callers :
        /\ pc[s] = "snap"
        /\ counter[s] = 0
        /\ cpc[c] = "enq"
        /\ csender[c] = s

(* -------------------------------- C14 --------------------------------- *)

\* C14: a Sender whose send failed is finished and has called the transport
\* exactly once; the failing step puts nothing back into any Sender's
\* messages; a Push that then finds the failed Sender under its key goes on
\* to make a new Sender, and a new Sender holds only the message of the Push
\* that made it.
C14_FailedFlushDropped ==
    /\ [](\A s \in failed :
             /\ TState(s) = "Done"
             /\ Len(transport[s]) = 1
             /\ full_message[s] = <<>>)
    /\ [][\A s \in Senders :
             SendFail(s) => UNCHANGED <<messages, counter, CLUSTER_DICT>>]_vars
    /\ [][\A c \in Callers, s \in Senders :
             (s = csender[c] /\ s \in failed /\ PushCheck(c)) =>
                 cpc'[c] = "create"]_vars
    /\ [][\A c \in Callers, m \in Messages :
             (m = cmsg[c] /\ PushCreate(c)) =>
                 /\ messages'[nsenders'] = <<m>>
                 /\ CLUSTER_DICT'[ckey[c]] = nsenders']_vars

\* The send of the first Sender of a key failed; a Push that found it under
\* the key has installed a second Sender, which holds that Push's message
\* only, and the first Sender holds nothing.
C14_Witness ==
    \E s \in failed, n \in Senders, c \in Callers :
        /\ n # s
        /\ skey[n] = skey[s]
        /\ csender[c] = s
        /\ cnew[c] = n
        /\ CLUSTER_DICT[skey[s]] = n
        /\ messages[n] = <<cmsg[c]>>
        /\ messages[s] = <<>>
        /\ Len(transport[s]) = 1

(* -------------------------------- C15 --------------------------------- *)

\* C15: the failing send of a Sender leaves unchanged everything held for
\* any other key, and under fair scheduling a Sender of another key that is
\* alive once some send has failed still finishes, having handed the
\* transport one body, which holds what it accumulated.
C15_FailureIsolation ==
    /\ [][\A s \in Senders :
             SendFail(s) =>
                 \A b \in Keys \ {skey[s]} : KeyView(b)' = KeyView(b)]_vars
    /\ \A a \in Senders, b \in Senders :
          (a \in failed /\ skey[b] # skey[a] /\ is_alive(b)) ~>
              /\ pc[b] = "done"
              /\ Len(transport[b]) = 1
              /\ Range(accum[b]) = Range(SplitLines(transport[b][1]))

\* The send of one Sender has failed while the Sender of a different key,
\* holding its own message, is still counting down.
C15_Witness ==
    \E a \in failed, b \in Senders \ failed :
        /\ skey[a] # skey[b]
        /\ pc[b] = "dec"
        /\ counter[b] > 0
        /\ Len(messages[b]) = 1
        /\ transport[b] = <<>>

(* -------------------------------- C16 --------------------------------- *)

\* C16: a Sender that took its flush snapshot with an empty messages list
\* never calls the transport.
C16_EmptyFlushSilent ==
    \A s \in Senders :
        (pc[s] = "done" /\ accum[s] = <<>>) => transport[s] = <<>>

(* -------------------------------- C18 --------------------------------- *)

\* C18: every PushoverQueue.Push(message, clustering_key) handed Push() the
\* caller's message as the body and the caller's clustering key as the
\* cluster key, and no Sender is installed under the API token, holds the
\* user key as a message, or has sent the user key.
C18_QueuePushArguments ==
    /\ \A r \in qcalls :
          /\ r.body = r.message
          /\ r.cluster = r.clustering_key
    /\ \A s \in Senders :
          /\ skey[s] # API_TOKEN
          /\ USER_KEY \notin Range(accum[s])
          /\ USER_KEY \notin SentLines(s)

(* -------------------------------- C20 --------------------------------- *)

\* C20: `running` is true exactly when the last of Start() and Stop() to
\* act was a Start(); only those two change it; a poll by run() goes round
\* again exactly when `running` is true; whoever holds the lock is inside
\* its `with` block; and under fair scheduling every call of Start() or
\* Stop() returns, the lock is always released, and once a Stop() was the
\* last to act a started run() ends unless a Start() acts after it.
C20_RunningBetweenStartAndStop ==
    /\ [](running <=> lastOp = "Start")
    /\ [](/\ qlock \in Controllers => kpc[qlock] \in {"start_cs", "stop_cs"}
          /\ qlock = "run" => qpc = "poll_cs"
          /\ \A k \in Controllers : kpc[k] \in {"start_cs", "stop_cs"} => qlock = k
          /\ qpc = "poll_cs" => qlock = "run")
    /\ [][/\ running' # running =>
                \E k \in Controllers : StartBody(k) \/ StopBody(k)
          /\ PollBody => (qpc' = "poll" <=> running)
          /\ (qpc = "poll" /\ running) => qpc' # "done"]_vars
    /\ \A k \in Controllers : (kpc[k] # "idle") ~> (kpc[k] = "idle")
    /\ (qlock # "free") ~> (qlock = "free")
    /\ (lastOp = "Stop" /\ qpc \in {"poll", "poll_cs"}) ~>
           (qpc = "done" \/ lastOp = "Start")

\* run() was started and has ended, a Stop() was the last to act, `running`
\* is false, every call has returned and nobody holds the lock.
C20_Witness ==
    /\ qpc = "done"
    /\ lastOp = "Stop"
    /\ ~running
    /\ qlock = "free"
    /\ \A k \in Controllers : kpc[k] = "idle"

=============================================================================
